---- MODULE Spec2Model ----
(***************************************************************************)
(* Model of cbench/commands.py: the orchestration commands of cbench.      *)
(* The module-level state of cbench.state (CLUSTER_INSTANCES,              *)
(* YCSB_INSTANCES, SEED_IP, RUN_NAME, RUN_DESCRIPTION, WORKLOAD) is the    *)
(* program state; the EC2 inventory, the processes running on the          *)
(* instances, the keyspace of the store and the result directories are     *)
(* the environment the commands act on.                                    *)
(***************************************************************************)
EXTENDS Integers, Sequences, FiniteSets, TLC

\* ---------------------------------------------------------------- bounds
MaxInstances == 3
MaxNum == 2
MaxHosts == 2
MaxProbes == 4

\* ------------------------------------------------------------- constants
\* Python's None for an address, and for a string
None == 0
NoneStr == "<None>"
\* the timestamp-derived default run name (commands.py:112)
Timestamp == "<timestamp>"

Ids == 1..MaxInstances
Setups == {"cassandra", "ycsb"}
Groups == {"CLUSTER_INSTANCES", "YCSB_INSTANCES", "list", "None"}
\* the lists of hosts passed to a command: up to MaxHosts ids, ascending
HostLists == {s \in UNION {[1..n -> Ids] : n \in 0..MaxHosts} :
                 \A j, k \in 1..Len(s) : j < k => s[j] < s[k]}

VARIABLES
    CLUSTER_INSTANCES,  \* state.CLUSTER_INSTANCES: sequence of instance ids
    YCSB_INSTANCES,     \* state.YCSB_INSTANCES: sequence of instance ids
    SEED_IP,            \* state.SEED_IP: address or None
    RUN_NAME,           \* state.RUN_NAME
    RUN_DESCRIPTION,    \* state.RUN_DESCRIPTION
    WORKLOAD,           \* state.WORKLOAD
    ec2,                \* the EC2 inventory: id -> [tag, state]
    cassandra,          \* instances on which the store process runs
    keyspace,           \* TRUE when the keyspace ycsb exists in the store
    results,            \* the files of the result directories
    last,               \* the last command: arguments, outcome, remote calls
    prepare_called,     \* history: prepare_benchmark was invoked
    role_mismatch,      \* history: a state list was passed with the other setup
    scenario,           \* history: position in the end-to-end scenario
    loaded,             \* history: the command before was a load_state that returned
    prepare_done,       \* history: a prepare_benchmark ran to its end
    ycsb_running,       \* TRUE while the workload process runs on the generator
    wait                \* wait_for_finish: where it stands, what it did

vars == <<CLUSTER_INSTANCES, YCSB_INSTANCES, SEED_IP, RUN_NAME, RUN_DESCRIPTION,
          WORKLOAD, ec2, cassandra, keyspace, results, last, prepare_called,
          role_mismatch, scenario, loaded, prepare_done, ycsb_running, wait>>

state_vars == <<CLUSTER_INSTANCES, YCSB_INSTANCES, SEED_IP, RUN_NAME,
                RUN_DESCRIPTION, WORKLOAD>>

\* --------------------------------------------------------------- helpers
Range(s) == {s[k] : k \in 1..Len(s)}

Min(S) == CHOOSE x \in S : \A y \in S : x <= y

NoDuplicates(s) == \A j, k \in 1..Len(s) : j # k => s[j] # s[k]

Perms(S) == {s \in [1..Cardinality(S) -> S] : \A j, k \in 1..Cardinality(S) : j # k => s[j] # s[k]}

\* the record kept of a command; again: it is a load_state that follows a
\* load_state that returned; ledger: the records the command appended to the
\* action ledger; written: the result files the command wrote
Blank == [op |-> "", again |-> FALSE, hosts |-> <<>>, num |-> 0, group |-> "", setup |-> "",
          name |-> "", workload |-> "", outcome |-> "", cmds |-> <<>>,
          created |-> <<>>, modes |-> <<>>, warned |-> {}, ledger |-> <<>>,
          written |-> {}]

\* ------------------------------------------------------- the EC2 inventory
\* the address EC2 gave instance id
Ip(id) == 10 + id

Exists(id) == ec2[id].state # "absent"

\* pending or running: the instance answers, and passes load_state's filter
Live(id) == ec2[id].state = "running"

\* ec2.Instance(id).private_ip_address: a terminated instance has none
private_ip_address(id) == IF Live(id) THEN Ip(id) ELSE None

\* the ids of the instances created so far; EC2 hands out a new id each time
Created == {i \in Ids : Exists(i)}

\* the tag filter dropped
describe_instances_AnyTag(setup) == {i \in Ids : Live(i)}

\* describe_instances with a tag-value filter 'setup-*' and state pending/running
describe_instances(setup) == {i \in Ids : Live(i) /\ ec2[i].tag = setup}

\* ----------------------------------------------------- the remote executor
\* the remote calls that exit nonzero unless the store's container runs
NeedsStore == {"cqlsh DESCRIBE KEYSPACES", "cqlsh create keyspace"}

\* plan is the sequence of remote calls <<kind, host>> a command makes when
\* nothing fails; fail = k makes the k-th call raise; a call to an instance
\* that is not live raises in any case, and so does cqlsh without the store.
\* FailIdx is the call that raises (0: none).
FailIdx(plan, fail) ==
    LET bad == {k \in 1..Len(plan) :
                   \/ k = fail
                   \/ ~Live(plan[k][2])
                   \/ plan[k][1] \in NeedsStore /\ plan[k][2] \notin cassandra}
    IN IF bad = {} THEN 0 ELSE Min(bad)

\* the calls attempted, the failing one included
Attempted(plan, f) == IF f = 0 THEN plan ELSE SubSeq(plan, 1, f)

\* the calls that returned
Returned(plan, f) == IF f = 0 THEN plan ELSE SubSeq(plan, 1, f - 1)

\* hosts on which util.run_cassandra returned
Started(cmds) == {c[2] : c \in {d \in Range(cmds) : d[1] = "run_cassandra"}}

\* hosts on which util.decommission_cassandra returned
Decommissioned(cmds) == {c[2] : c \in {d \in Range(cmds) : d[1] = "decommission_cassandra"}}

\* ------------------------------------------------------------- histories
\* the end-to-end scenario: two instances, a cluster on them, a third
\* instance, the scale-out; "list": the instances were created into a list of
\* the caller, "state": into state.CLUSTER_INSTANCES
CreatedInto(r, num, group) ==
    /\ r.op = "create_instances" /\ r.num = num /\ r.setup = "cassandra"
    /\ r.group = group /\ r.outcome = "ok"

ScenarioNext(r) ==
    CASE scenario = "init" /\ CreatedInto(r, 2, "list") -> "list2"
      [] scenario = "init" /\ CreatedInto(r, 2, "CLUSTER_INSTANCES") -> "state2"
      [] scenario \in {"list2", "state2"} /\ r.op = "create_cluster"
             /\ r.hosts = <<1, 2>> /\ r.outcome = "ok" -> IF scenario = "list2" THEN "list2_cluster"
                                                          ELSE "state2_cluster"
      [] scenario = "list2_cluster" /\ CreatedInto(r, 1, "list") -> "list3"
      [] scenario = "state2_cluster" /\ CreatedInto(r, 1, "list") -> "state2_list1"
      [] scenario = "state2_cluster" /\ CreatedInto(r, 1, "CLUSTER_INSTANCES") -> "state3"
      [] scenario = "list3" /\ r.op = "scale_cluster" /\ r.hosts = <<3>> -> "list3_scaled"
      [] scenario = "state2_list1" /\ r.op = "scale_cluster" /\ r.hosts = <<3>>
             -> "state2_list1_scaled"
      [] scenario = "state3" /\ r.op = "scale_cluster" /\ r.hosts = <<3>>
             /\ r.outcome = "ok" -> "state3_scaled"
      [] OTHER -> "off"

\* the commands decorated with @util.action (lines 26, 39, 66, 80, 99, 150,
\* 172, 182, 240, 285); terminate_cluster (250) and terminate_all (258) are not
Decorated == {"create_cluster", "create_instances", "remove_cassandra_instance",
              "scale_cluster", "prepare_benchmark", "start_benchmark",
              "wait_for_finish", "gather_results", "terminate_instance", "load_state"}

\* util.action: one record of the command and its outcome is appended to the
\* action ledger when the command ends, and its exception is raised again
action(r) ==
    IF r.op \in Decorated THEN [r EXCEPT !.ledger = << <<r.op, r.outcome>> >>] ELSE r

\* a command starts when the one before it has returned; its record r becomes
\* `last`
Observe(r) ==
    /\ last = Blank
    /\ last' = [action(r) EXCEPT !.again = (loaded /\ r.op = "load_state")]
    /\ loaded' = (r.op = "load_state" /\ r.outcome = "ok")
    /\ prepare_done' = (prepare_done \/ (r.op = "prepare_benchmark" /\ r.outcome = "ok"))
    /\ UNCHANGED <<ycsb_running, wait>>
    /\ prepare_called' = (prepare_called \/ r.op = "prepare_benchmark")
    /\ role_mismatch' = (role_mismatch
                           \/ (r.op = "create_instances"
                                 /\ \/ r.group = "CLUSTER_INSTANCES" /\ r.setup # "cassandra"
                                    \/ r.group = "YCSB_INSTANCES" /\ r.setup # "ycsb"))
    /\ scenario' = ScenarioNext(r)

\* the command returns to the prompt and its record is dropped
Return ==
    /\ last # Blank
    /\ last' = Blank
    /\ UNCHANGED <<state_vars, ec2, cassandra, keyspace, results, prepare_called,
                   role_mismatch, scenario, loaded, prepare_done, ycsb_running, wait>>

\* wait_for_finish before it is called: pc is where it stands, probes the
\* probes made, slept the time units slept, reported the last probe's answer
Idle == [pc |-> "idle", probes |-> 0, slept |-> 0, reported |-> ""]

\* ----------------------------------------------------------------- Init
Init ==
    /\ CLUSTER_INSTANCES = <<>>
    /\ YCSB_INSTANCES = <<>>
    /\ SEED_IP = None
    /\ RUN_NAME = NoneStr
    /\ RUN_DESCRIPTION = NoneStr
    /\ WORKLOAD = NoneStr
    /\ ec2 = [i \in Ids |-> [tag |-> "", state |-> "absent"]]
    /\ cassandra = {}
    /\ keyspace = FALSE
    /\ results = {}
    /\ last = Blank
    /\ prepare_called = FALSE
    /\ role_mismatch = FALSE
    /\ scenario = "init"
    /\ loaded = FALSE
    /\ prepare_done = FALSE
    /\ ycsb_running = FALSE
    /\ wait = Idle

\* --------------------------------------------------------- create_cluster
\* the seed resolved on every call
SeedFor_EveryCall(hosts) == IF hosts = <<>> THEN SEED_IP ELSE private_ip_address(hosts[1])

\* lines 33-34: the seed is resolved only while none is known
SeedFor(hosts) == IF SEED_IP = None THEN private_ip_address(hosts[1]) ELSE SEED_IP

create_cluster(hosts, fail) ==
    LET needSeed == SEED_IP = None
        indexError == needSeed /\ hosts = <<>>
        clientError == needSeed /\ hosts # <<>> /\ ~Exists(hosts[1])
        raised == indexError \/ clientError
        plan == [k \in 1..Len(hosts) |-> <<"run_cassandra", hosts[k]>>]
        f == FailIdx(plan, fail)
    IN /\ fail \in 0..Len(hosts)
       /\ SEED_IP' = IF raised THEN SEED_IP ELSE SeedFor(hosts)
       /\ cassandra' = IF raised THEN cassandra
                       ELSE cassandra \cup Started(Returned(plan, f))
       /\ Observe([Blank EXCEPT !.op = "create_cluster", !.hosts = hosts,
                     !.cmds = IF raised THEN <<>> ELSE Attempted(plan, f),
                     !.outcome = IF indexError THEN "IndexError"
                                 ELSE IF clientError THEN "ClientError"
                                 ELSE IF f # 0 THEN "transport" ELSE "ok"])
       /\ UNCHANGED <<CLUSTER_INSTANCES, YCSB_INSTANCES, RUN_NAME, RUN_DESCRIPTION,
                      WORKLOAD, ec2, keyspace, results>>

\* ------------------------------------------------------- create_instances
\* the list passed as group
GroupList(group) ==
    CASE group = "CLUSTER_INSTANCES" -> CLUSTER_INSTANCES
      [] group = "YCSB_INSTANCES" -> YCSB_INSTANCES
      [] OTHER -> <<>>

\* the list extended inside the loop as well as after it
Extend_Twice(list, instances) == list \o instances \o instances

\* the new identifiers put in front of the list
Extend_InFront(list, instances) == instances \o list

\* lines 60-61: group.extend(ids of the instances created)
Extend(list, instances) == list \o instances

\* the list with each identifier appended as its instance is created
GroupAfter_EachCreated(list, instances, ok) == Extend(list, instances)

\* the list passed as group when the call ends: lines 60-61 follow the loop,
\* and are reached only when every creation returned (ok)
GroupAfter(list, instances, ok) == IF ok THEN Extend(list, instances) ELSE list

\* fail = k: util.create_instance raises for the k-th instance
create_instances(num, group, setup, fail) ==
    LET typeError == group = "None" /\ num > 0
        n == IF typeError THEN 0 ELSE IF fail = 0 THEN num ELSE fail - 1
        first == Cardinality(Created) + 1
        instances == [k \in 1..n |-> first + k - 1]
        ok == ~typeError /\ fail = 0
        extended == GroupAfter(GroupList(group), instances, ok)
    IN /\ fail \in 0..num
       /\ Cardinality(Created) + num <= MaxInstances
       /\ ec2' = [i \in Ids |-> IF i \in Range(instances)
                                THEN [tag |-> setup, state |-> "running"]
                                ELSE ec2[i]]
       /\ CLUSTER_INSTANCES' = IF group = "CLUSTER_INSTANCES" THEN extended
                               ELSE CLUSTER_INSTANCES
       /\ YCSB_INSTANCES' = IF group = "YCSB_INSTANCES" THEN extended
                            ELSE YCSB_INSTANCES
       /\ Observe([Blank EXCEPT !.op = "create_instances", !.num = num,
                     !.group = group, !.setup = setup,
                     !.created = instances,
                     !.outcome = IF typeError THEN "TypeError"
                                 ELSE IF fail # 0 THEN "transport" ELSE "ok"])
       /\ UNCHANGED <<SEED_IP, RUN_NAME, RUN_DESCRIPTION, WORKLOAD, cassandra,
                      keyspace, results>>

\* -------------------------------------------------- remove_cassandra_instance
remove_cassandra_instance(instance_id, fail) ==
    LET indexError == CLUSTER_INSTANCES = <<>>
        plan == IF indexError THEN <<>>
                ELSE << <<"nodetool status", CLUSTER_INSTANCES[1]>>,
                        <<"decommission_cassandra", instance_id>>,
                        <<"nodetool ring", CLUSTER_INSTANCES[1]>>,
                        <<"nodetool status", CLUSTER_INSTANCES[1]>> >>
        f == FailIdx(plan, fail)
    IN /\ fail \in 0..Len(plan)
       /\ cassandra' = cassandra \ Decommissioned(Returned(plan, f))
       /\ Observe([Blank EXCEPT !.op = "remove_cassandra_instance",
                     !.hosts = <<instance_id>>,
                     !.cmds = Attempted(plan, f),
                     !.outcome = IF indexError THEN "IndexError"
                                 ELSE IF f # 0 THEN "transport" ELSE "ok"])
       /\ UNCHANGED <<state_vars, ec2, keyspace, results>>

\* ---------------------------------------------------------- scale_cluster
\* the first listed instance on which the store is found running, given that
\* the store is started on every instance before it (0: none)
ConflictIdx(instances, running) ==
    LET hit == {k \in 1..Len(instances) :
                   instances[k] \in running \cup {instances[j] : j \in 1..(k - 1)}}
    IN IF hit = {} THEN 0 ELSE Min(hit)

\* no ring status after the joins
ScalePlan_NoStatusAfter(instances, running) ==
    LET c == ConflictIdx(instances, running)
        n == IF c = 0 THEN Len(instances) ELSE c - 1
        joins == [k \in 1..(2 * n) |->
                    IF k % 2 = 1 THEN <<"is_cassandra_running", instances[(k + 1) \div 2]>>
                    ELSE <<"run_cassandra", instances[k \div 2]>>]
    IN << <<"nodetool status", CLUSTER_INSTANCES[1]>> >>
       \o joins
       \o (IF c = 0 THEN <<>> ELSE << <<"is_cassandra_running", instances[c]>> >>)

ScalePlan(instances, running) ==
    LET c == ConflictIdx(instances, running)
        n == IF c = 0 THEN Len(instances) ELSE c - 1
        joins == [k \in 1..(2 * n) |->
                    IF k % 2 = 1 THEN <<"is_cassandra_running", instances[(k + 1) \div 2]>>
                    ELSE <<"run_cassandra", instances[k \div 2]>>]
    IN << <<"nodetool status", CLUSTER_INSTANCES[1]>> >>
       \o joins
       \o (IF c = 0 THEN << <<"nodetool ring", CLUSTER_INSTANCES[1]>>,
                            <<"nodetool status", CLUSTER_INSTANCES[1]>> >>
           ELSE << <<"is_cassandra_running", instances[c]>> >>)

scale_cluster(instances, fail) ==
    LET indexError == CLUSTER_INSTANCES = <<>>
        plan == IF indexError THEN <<>> ELSE ScalePlan(instances, cassandra)
        f == FailIdx(plan, fail)
        conflict == ConflictIdx(instances, cassandra) # 0
    IN /\ fail \in 0..Len(plan)
       /\ cassandra' = cassandra \cup Started(Returned(plan, f))
       /\ Observe([Blank EXCEPT !.op = "scale_cluster", !.hosts = instances,
                     !.cmds = Attempted(plan, f),
                     !.outcome = IF indexError THEN "IndexError"
                                 ELSE IF f # 0 THEN "transport"
                                 ELSE IF conflict THEN "conflict" ELSE "ok"])
       /\ UNCHANGED <<state_vars, ec2, keyspace, results>>

\* ------------------------------------------------------------- load_state
\* every id found appended, known or not
Merge_NoTest(list, found) == list \o found

\* appends to list the ids of found, in order, that list does not hold yet
RECURSIVE Merge(_, _)
Merge(list, found) ==
    IF found = <<>> THEN list
    ELSE Merge(IF Head(found) \in Range(list) THEN list ELSE Append(list, Head(found)),
               Tail(found))

\* cluster_found, ycsb_found: the two answers of describe_instances in the
\* order EC2 gives them; fail = 1, 2: the first, the second query raises
load_state(cluster_found, ycsb_found, fail) ==
    LET cluster == IF fail = 1 THEN CLUSTER_INSTANCES
                   ELSE Merge(CLUSTER_INSTANCES, cluster_found)
    IN /\ fail \in 0..2
       /\ cluster_found \in Perms(describe_instances("cassandra"))
       /\ ycsb_found \in Perms(describe_instances("ycsb"))
       /\ CLUSTER_INSTANCES' = cluster
       /\ SEED_IP' = IF fail # 1 /\ cluster # <<>> THEN private_ip_address(cluster[1])
                     ELSE SEED_IP
       /\ YCSB_INSTANCES' = IF fail # 0 THEN YCSB_INSTANCES
                            ELSE Merge(YCSB_INSTANCES, ycsb_found)
       /\ Observe([Blank EXCEPT !.op = "load_state",
                     !.outcome = IF fail # 0 THEN "ClientError" ELSE "ok"])
       /\ UNCHANGED <<RUN_NAME, RUN_DESCRIPTION, WORKLOAD, ec2, cassandra,
                      keyspace, results>>

\* ------------------------------------------------------------ termination
\* ids terminated by terminating the ids of list in order, where the fail-th
\* call raises, as does a call for an id EC2 does not know
TerminateFail(list, fail) ==
    LET bad == {k \in 1..Len(list) : k = fail \/ ~Exists(list[k])}
    IN IF bad = {} THEN 0 ELSE Min(bad)

\* the ledger records of the terminate_instance calls made for list: one for
\* each call, the failing one included
TerminateLedger(list, f) ==
    [k \in 1..Len(Attempted(list, f)) |->
        <<"terminate_instance", IF k = f THEN "ClientError" ELSE "ok">>]

Terminate(list, fail, op) ==
    LET f == TerminateFail(list, fail)
        gone == Range(Returned(list, f))
    IN /\ fail \in 0..Len(list)
       /\ ec2' = [i \in Ids |-> IF i \in gone THEN [ec2[i] EXCEPT !.state = "terminated"]
                                ELSE ec2[i]]
       /\ cassandra' = cassandra \ gone
       /\ Observe([Blank EXCEPT !.op = op, !.hosts = Attempted(list, f),
                     !.ledger = TerminateLedger(list, f),
                     !.outcome = IF f # 0 THEN "ClientError" ELSE "ok"])
       /\ UNCHANGED <<state_vars, keyspace, results>>

terminate_instance(id, fail) == Terminate(<<id>>, fail, "terminate_instance")

terminate_cluster(fail) == Terminate(CLUSTER_INSTANCES, fail, "terminate_cluster")

terminate_all(fail) == Terminate(CLUSTER_INSTANCES \o YCSB_INSTANCES, fail, "terminate_all")

\* ------------------------------------------------------ prepare_benchmark
Workloads == {"workloads/workload_read", "workloads/workload_scale"}
Names == {NoneStr, "", "run1"}
Descriptions == {NoneStr, "scale out"}

\* util.Fragile leaves its with-block silently on Fragile.Break
Fragile_swallows_Break == TRUE

\* the schema created without looking at the probe's answer
PreparePlan_NoProbeTest ==
    << <<"connect", CLUSTER_INSTANCES[1]>>,
       <<"cqlsh DESCRIBE KEYSPACES", CLUSTER_INSTANCES[1]>>,
       <<"cqlsh create keyspace", CLUSTER_INSTANCES[1]>>,
       <<"connect", YCSB_INSTANCES[1]>>, <<"ycsb load", YCSB_INSTANCES[1]>> >>

PreparePlan ==
    << <<"connect", CLUSTER_INSTANCES[1]>>,
       <<"cqlsh DESCRIBE KEYSPACES", CLUSTER_INSTANCES[1]>> >>
    \o (IF keyspace
        THEN <<>>
        ELSE << <<"cqlsh create keyspace", CLUSTER_INSTANCES[1]>> >>)
    \o (IF keyspace /\ ~Fragile_swallows_Break
        THEN <<>>
        ELSE << <<"connect", YCSB_INSTANCES[1]>>, <<"ycsb load", YCSB_INSTANCES[1]>> >>)

\* the caller's name dropped
RunName_Ignored(name) == Timestamp

\* line 112: name if name else the timestamp
RunName(name) == IF name \in {NoneStr, ""} THEN Timestamp ELSE name

\* the run identity assigned before the membership check
Assigned_BeforeCheck(raised, old, new) == new

\* lines 109-114: the assignments follow the raise of the membership check
Assigned(raised, old, new) == IF raised THEN old ELSE new

prepare_benchmark(workload, name, description, fail) ==
    LET precondition == YCSB_INSTANCES = <<>> \/ CLUSTER_INSTANCES = <<>>
        plan == IF precondition THEN <<>> ELSE PreparePlan
        f == FailIdx(plan, fail)
    IN /\ fail \in 0..Len(plan)
       /\ RUN_NAME' = Assigned(precondition, RUN_NAME, RunName(name))
       /\ RUN_DESCRIPTION' = Assigned(precondition, RUN_DESCRIPTION, description)
       /\ WORKLOAD' = Assigned(precondition, WORKLOAD, workload)
       /\ keyspace' = (keyspace
                         \/ \E c \in Range(Returned(plan, f)) : c[1] = "cqlsh create keyspace")
       /\ Observe([Blank EXCEPT !.op = "prepare_benchmark", !.name = name,
                     !.workload = workload,
                     !.cmds = Attempted(plan, f),
                     !.outcome = IF precondition THEN "precondition"
                                 ELSE IF f # 0 THEN "transport"
                                 ELSE IF keyspace /\ ~Fragile_swallows_Break THEN "Break"
                                 ELSE "ok"])
       /\ UNCHANGED <<CLUSTER_INSTANCES, YCSB_INSTANCES, SEED_IP, ec2, cassandra, results>>

\* -------------------------------------------------------- start_benchmark
start_benchmark(fail) ==
    LET precondition == RUN_NAME \in {NoneStr, ""} \/ WORKLOAD \in {NoneStr, ""}
        indexError == ~precondition /\ YCSB_INSTANCES = <<>>
        plan == IF precondition \/ indexError THEN <<>>
                ELSE << <<"connect", YCSB_INSTANCES[1]>>, <<"ycsb run", YCSB_INSTANCES[1]>> >>
        f == FailIdx(plan, fail)
    IN /\ fail \in 0..Len(plan)
       /\ Observe([Blank EXCEPT !.op = "start_benchmark",
                     !.cmds = Attempted(plan, f),
                     !.outcome = IF precondition THEN "precondition"
                                 ELSE IF indexError THEN "IndexError"
                                 ELSE IF f # 0 THEN "transport" ELSE "ok"])
       /\ UNCHANGED <<state_vars, ec2, cassandra, keyspace, results>>

\* --------------------------------------------------------- gather_results
\* what happens at cluster node k (1-based) when its log is gathered:
\* "connect": util.connect or the lookup of sudo raises, "fetch": docker logs
\* or the download raises, "ok".  modes is what the network does to a live
\* node running the store.
NodeMode(modes, k) ==
    IF ~Live(CLUSTER_INSTANCES[k]) THEN "connect"
    ELSE IF modes[k] = "ok" /\ CLUSTER_INSTANCES[k] \notin cassandra THEN "fetch"
    ELSE modes[k]

\* the files of a result directory are <<run name, kind, index>>
Snapshot(dir) == {<<dir, "cbench.state", 0>>, <<dir, "cbench.settings", 0>>,
                  <<dir, "general log", 0>>, <<dir, "action log", 0>>}

\* ycsb_fail = k: the download from the k-th generator node raises
gather_results(ycsb_fail, modes) ==
    LET typeError == RUN_NAME = NoneStr
        yplan == [k \in 1..Len(YCSB_INSTANCES) |-> <<"download ycsb.log", YCSB_INSTANCES[k]>>]
        yf == FailIdx(yplan, ycsb_fail)
        eff == [k \in 1..Len(CLUSTER_INSTANCES) |-> NodeMode(modes, k)]
        refused == {k \in 1..Len(eff) : eff[k] = "connect"}
        \* the cluster nodes the loop gets to
        reach == IF refused = {} THEN Len(eff) ELSE Min(refused)
        ylogs == {<<RUN_NAME, "ycsb", k - 1>> : k \in 1..Len(Returned(yplan, yf))}
        clogs == {<<RUN_NAME, "cassandra", k - 1>> : k \in {j \in 1..reach : eff[j] = "ok"}}
    IN /\ ycsb_fail \in 0..Len(YCSB_INSTANCES)
       /\ modes \in [1..Len(CLUSTER_INSTANCES) -> {"ok", "connect", "fetch"}]
       /\ results' = IF typeError THEN results
                     ELSE IF yf # 0 THEN results \cup {<<RUN_NAME, "dir", 0>>} \cup ylogs
                     ELSE results \cup {<<RUN_NAME, "dir", 0>>} \cup ylogs
                            \cup Snapshot(RUN_NAME) \cup clogs
       /\ Observe([Blank EXCEPT !.op = "gather_results", !.name = RUN_NAME,
                     !.written = IF typeError THEN {}
                                 ELSE IF yf # 0 THEN ylogs
                                 ELSE ylogs \cup Snapshot(RUN_NAME) \cup clogs,
                     !.modes = IF typeError \/ yf # 0 THEN <<>> ELSE eff,
                     !.warned = IF typeError \/ yf # 0 THEN {}
                                ELSE {k - 1 : k \in {j \in 1..reach : eff[j] = "fetch"}},
                     !.outcome = IF typeError THEN "TypeError"
                                 ELSE IF yf # 0 \/ refused # {} THEN "transport"
                                 ELSE "ok"])
       /\ UNCHANGED <<state_vars, ec2, cassandra, keyspace>>

\* -------------------------------------------------------- wait_for_finish
\* the interval between two probes (line 178)
Interval == 10

\* the counts kept of a call stop at MaxProbes probes and as many sleeps
Count(n, step, max) == IF n + step <= max THEN n + step ELSE n

\* the loop left whatever the probe says
LoopExits_Always(done) == TRUE

\* line 177: while not util.is_benchmark_done()
LoopExits(done) == done

\* the call: control enters the loop, the first probe is due
wait_for_finish ==
    /\ last = Blank
    /\ wait.pc \in {"idle", "returned", "raised"}
    /\ wait' = [Idle EXCEPT !.pc = "probe"]
    /\ UNCHANGED <<state_vars, ec2, cassandra, keyspace, results, last, prepare_called,
                   role_mismatch, scenario, loaded, prepare_done, ycsb_running>>

\* util.is_benchmark_done() on the first generator node: it raises when there
\* is no generator node, when the node is not live or when the transport fails
\* (raises), and else reports whether the workload process has stopped
is_benchmark_done(raises) ==
    LET error == raises \/ YCSB_INSTANCES = <<>> \/ ~Live(YCSB_INSTANCES[1])
        done == ~ycsb_running
    IN /\ wait.pc = "probe"
       /\ wait' = [wait EXCEPT
                     !.probes = Count(@, 1, MaxProbes),
                     !.reported = IF error THEN "error"
                                  ELSE IF done THEN "stopped" ELSE "running",
                     !.pc = IF error THEN "raised"
                            ELSE IF LoopExits(done) THEN "returned" ELSE "sleep"]
       /\ UNCHANGED <<state_vars, ec2, cassandra, keyspace, results, last, prepare_called,
                      role_mismatch, scenario, loaded, prepare_done, ycsb_running>>

\* line 178: sleep(10), then back to the loop's test
sleep ==
    /\ wait.pc = "sleep"
    /\ wait' = [wait EXCEPT !.slept = Count(@, Interval, Interval * MaxProbes),
                            !.pc = "probe"]
    /\ UNCHANGED <<state_vars, ec2, cassandra, keyspace, results, last, prepare_called,
                   role_mismatch, scenario, loaded, prepare_done, ycsb_running>>

\* the workload process on the generator node: a dispatched run starts it, it
\* stops when the run is over
WorkloadStarts ==
    /\ ~ycsb_running
    /\ YCSB_INSTANCES # <<>> /\ Live(YCSB_INSTANCES[1])
    /\ ycsb_running' = TRUE
    /\ UNCHANGED <<state_vars, ec2, cassandra, keyspace, results, last, prepare_called,
                   role_mismatch, scenario, loaded, prepare_done, wait>>

WorkloadStops ==
    /\ ycsb_running
    /\ ycsb_running' = FALSE
    /\ UNCHANGED <<state_vars, ec2, cassandra, keyspace, results, last, prepare_called,
                   role_mismatch, scenario, loaded, prepare_done, wait>>

\* ------------------------------------------------------------------ Next
\* Building and scaling the cluster.  Instances of the cluster role are
\* created into state.CLUSTER_INSTANCES or into a list of the caller; a remote
\* call fails when its host does not exist.
ClusterNext ==
    \/ Return
    \/ \E num \in 0..MaxNum, group \in Groups \ {"YCSB_INSTANCES"}, fail \in 0..MaxNum :
          create_instances(num, group, "cassandra", fail)
    \/ \E hosts \in HostLists : create_cluster(hosts, 0)
    \/ \E instances \in HostLists : scale_cluster(instances, 0)
    \/ \E id \in Ids : remove_cassandra_instance(id, 0)

ClusterSpec == Init /\ [][ClusterNext]_vars

\* The membership lists against the EC2 inventory: instances of either setup
\* created into either state list or into a list of the caller.
InventoryNext ==
    \/ Return
    \/ \E num \in 1..MaxNum, group \in Groups \ {"None"}, setup \in Setups,
          fail \in 0..MaxNum :
          create_instances(num, group, setup, fail)
    \/ \E cf \in Perms(describe_instances("cassandra")),
          yf \in Perms(describe_instances("ycsb")), fail \in 0..2 :
          load_state(cf, yf, fail)

InventorySpec == Init /\ [][InventoryNext]_vars

\* The benchmark pipeline on a cluster built the documented way: each role
\* created into its own list, the store started on state.CLUSTER_INSTANCES.
\* Any remote call of the pipeline may fail.
BenchNext ==
    \/ Return
    \/ \E num \in 1..MaxNum : create_instances(num, "CLUSTER_INSTANCES", "cassandra", 0)
    \/ \E num \in 1..MaxNum : create_instances(num, "YCSB_INSTANCES", "ycsb", 0)
    \/ create_cluster(CLUSTER_INSTANCES, 0)
    \/ \E workload \in Workloads, name \in Names, description \in Descriptions,
          fail \in 0..5 :
          prepare_benchmark(workload, name, description, fail)
    \/ \E fail \in 0..2 : start_benchmark(fail)

BenchSpec == Init /\ [][BenchNext]_vars

\* Harvesting the results of prepared runs; the network may fail at any node.
HarvestNext ==
    \/ Return
    \/ \E num \in 1..MaxNum : create_instances(num, "CLUSTER_INSTANCES", "cassandra", 0)
    \/ \E num \in 1..MaxNum : create_instances(num, "YCSB_INSTANCES", "ycsb", 0)
    \/ create_cluster(CLUSTER_INSTANCES, 0)
    \/ \E name \in Names : prepare_benchmark("workloads/workload_read", name, NoneStr, 0)
    \/ \E ycsb_fail \in 0..Len(YCSB_INSTANCES),
          modes \in [1..Len(CLUSTER_INSTANCES) -> {"ok", "connect", "fetch"}] :
          gather_results(ycsb_fail, modes)

HarvestSpec == Init /\ [][HarvestNext]_vars

\* The seed address under the commands that build the cluster and the
\* reconciliation with the EC2 inventory.
SeedNext ==
    \/ Return
    \/ \E num \in 1..MaxNum, group \in {"CLUSTER_INSTANCES", "list"} :
          create_instances(num, group, "cassandra", 0)
    \/ \E hosts \in HostLists : create_cluster(hosts, 0)
    \/ \E instances \in HostLists : scale_cluster(instances, 0)
    \/ \E cf \in Perms(describe_instances("cassandra")),
          yf \in Perms(describe_instances("ycsb")), fail \in 0..2 :
          load_state(cf, yf, fail)

SeedSpec == Init /\ [][SeedNext]_vars

\* Taking the fleet down: instances of both roles, each created into its own
\* list, the store started, nodes decommissioned, instances terminated one by
\* one, by cluster or all at once; any termination may fail.
TeardownNext ==
    \/ Return
    \/ \E num \in 1..MaxNum : create_instances(num, "CLUSTER_INSTANCES", "cassandra", 0)
    \/ \E num \in 1..MaxNum : create_instances(num, "YCSB_INSTANCES", "ycsb", 0)
    \/ create_cluster(CLUSTER_INSTANCES, 0)
    \/ \E instances \in HostLists : scale_cluster(instances, 0)
    \/ \E id \in Ids : remove_cassandra_instance(id, 0)
    \/ \E id \in Ids, fail \in 0..1 : terminate_instance(id, fail)
    \/ \E fail \in 0..MaxInstances : terminate_cluster(fail)
    \/ \E fail \in 0..MaxInstances : terminate_all(fail)
    \/ \E cf \in Perms(describe_instances("cassandra")),
          yf \in Perms(describe_instances("ycsb")) :
          load_state(cf, yf, 0)

TeardownSpec == Init /\ [][TeardownNext]_vars

\* Waiting for the workload to finish.  The process runs one command at a
\* time, so no other command starts while wait_for_finish is in its loop; the
\* workload process starts and stops on its own.  The loop runs on: a probe
\* that is due is made, a sleep that is due ends.
Waiting == wait.pc \in {"probe", "sleep"}

WaitNext ==
    \/ Return
    \/ \E num \in 1..MaxNum :
          ~Waiting /\ create_instances(num, "YCSB_INSTANCES", "ycsb", 0)
    \/ \E id \in Ids : ~Waiting /\ terminate_instance(id, 0)
    \/ wait_for_finish
    \/ \E raises \in BOOLEAN : is_benchmark_done(raises)
    \/ sleep
    \/ WorkloadStarts
    \/ WorkloadStops

WaitSpec ==
    /\ Init /\ [][WaitNext]_vars
    /\ WF_vars(\E raises \in BOOLEAN : is_benchmark_done(raises))
    /\ WF_vars(sleep)

\* Every command, any arguments.  Its state space is beyond an exhaustive
\* search at these bounds; the properties are checked under the
\* specifications above, each with the commands its properties are about.
Next ==
    \/ Return
    \/ \E hosts \in HostLists, fail \in 0..MaxHosts : create_cluster(hosts, fail)
    \/ \E num \in 0..MaxNum, group \in Groups, setup \in Setups, fail \in 0..MaxNum :
          create_instances(num, group, setup, fail)
    \/ \E id \in Ids, fail \in 0..4 : remove_cassandra_instance(id, fail)
    \/ \E instances \in HostLists, fail \in 0..(2 * MaxHosts + 3) :
          scale_cluster(instances, fail)
    \/ \E cf \in Perms(describe_instances("cassandra")),
          yf \in Perms(describe_instances("ycsb")), fail \in 0..2 :
          load_state(cf, yf, fail)
    \/ \E id \in Ids, fail \in 0..1 : terminate_instance(id, fail)
    \/ \E fail \in 0..MaxInstances : terminate_cluster(fail)
    \/ \E fail \in 0..MaxInstances : terminate_all(fail)
    \/ \E workload \in Workloads, name \in Names, description \in Descriptions,
          fail \in 0..5 :
          prepare_benchmark(workload, name, description, fail)
    \/ \E fail \in 0..2 : start_benchmark(fail)
    \/ \E ycsb_fail \in 0..Len(YCSB_INSTANCES),
          modes \in [1..Len(CLUSTER_INSTANCES) -> {"ok", "connect", "fetch"}] :
          gather_results(ycsb_fail, modes)
    \/ wait_for_finish
    \/ \E raises \in BOOLEAN : is_benchmark_done(raises)
    \/ sleep
    \/ WorkloadStarts
    \/ WorkloadStops

Spec == Init /\ [][Next]_vars

\* ---------------------------------------------------------------- claims
Kinds(cmds) == [k \in 1..Len(cmds) |-> cmds[k][1]]

Joins(cmds) == {k \in 1..Len(cmds) : cmds[k][1] = "run_cassandra"}

IsPrefix(s, t) == Len(s) <= Len(t) /\ SubSeq(t, 1, Len(s)) = s

\* C1: a scale_cluster call that finds the store already running on a listed
\* instance reports a conflict, and every other listed instance that is not
\* already running the store still gets its join attempt (run_cassandra),
\* wherever it stands in the list.  All listed instances are reachable.
C1_ConflictLeavesSiblingsUnaffected ==
    [][(/\ last'.op = "scale_cluster"
        /\ CLUSTER_INSTANCES # <<>>
        /\ \A h \in Range(last'.hosts) : Live(h)
        /\ \E h \in Range(last'.hosts) : h \in cassandra)
       => /\ last'.outcome = "conflict"
          /\ \A h \in Range(last'.hosts) :
                h \notin cassandra => <<"run_cassandra", h>> \in Range(last'.cmds)]_vars

\* the ring status was queried before the first join, with nothing but the
\* check of the first instance in between, and after the last join
RingStatusAround(cmds) ==
    /\ Joins(cmds) # {}
    /\ Len(cmds) >= 4
    /\ cmds[1][1] = "nodetool status"
    /\ cmds[2][1] = "is_cassandra_running"
    /\ cmds[3][1] = "run_cassandra"
    /\ cmds[Len(cmds)][1] = "nodetool status"
    /\ \A k \in Joins(cmds) : k < Len(cmds)

ScenarioResult ==
    /\ CLUSTER_INSTANCES = <<1, 2, 3>>
    /\ SEED_IP = Ip(1)
    /\ last # Blank => RingStatusAround(last.cmds)

\* C2 as stated: create_instances(2, group=[]) giving i1, i2, then
\* create_cluster([i1, i2]), then scale_cluster([i3]) ends with the membership
\* [i1, i2, i3], the seed i1's address and the ring status queried around the
\* joins.  i3 is created into a list of the caller, as i1 and i2 are; the
\* scenario is also tried with i1, i2 created into state.CLUSTER_INSTANCES.
C2_ScenarioAsStated ==
    scenario \in {"list3_scaled", "state2_list1_scaled"} => ScenarioResult

\* C2 amended: when i1, i2 and then i3 are created into
\* state.CLUSTER_INSTANCES and every call returns, the scenario ends with the
\* membership [i1, i2, i3], the seed i1's address and the ring status queried
\* before the first and after the last join.
C2_ScenarioIntoStateList ==
    scenario = "state3_scaled" => ScenarioResult

C2_Witness ==
    /\ scenario = "state3_scaled"
    /\ last.op = "scale_cluster" /\ last.outcome = "ok"
    /\ 3 \in cassandra

\* C3: a create_cluster call made while no seed is known sets SEED_IP to the
\* private address of hosts[0]; a call made while a seed is known leaves
\* SEED_IP as it is, whatever its first instance.
C3_SeedSetOnce ==
    [][last'.op = "create_cluster"
       => IF SEED_IP = None
          THEN (last'.hosts # <<>> /\ Exists(last'.hosts[1]))
                  => SEED_IP' = private_ip_address(last'.hosts[1])
          ELSE SEED_IP' = SEED_IP]_vars

C3_Witness ==
    /\ last.op = "create_cluster"
    /\ last.outcome = "ok"
    /\ last.hosts # <<>>
    /\ SEED_IP # None
    /\ SEED_IP # Ip(last.hosts[1])

\* C4: every create_instances call that returns extends the list passed as
\* group by exactly num identifiers and leaves it without duplicates, so after
\* any sequence of such calls the length is the initial length plus the sum of
\* the counts.
C4_LengthIsSumOfCounts ==
    [][(last'.op = "create_instances" /\ last'.outcome = "ok")
       => /\ last'.group = "CLUSTER_INSTANCES"
               => /\ Len(CLUSTER_INSTANCES') = Len(CLUSTER_INSTANCES) + last'.num
                  /\ IsPrefix(CLUSTER_INSTANCES, CLUSTER_INSTANCES')
                  /\ NoDuplicates(CLUSTER_INSTANCES')
          /\ last'.group = "YCSB_INSTANCES"
               => /\ Len(YCSB_INSTANCES') = Len(YCSB_INSTANCES) + last'.num
                  /\ IsPrefix(YCSB_INSTANCES, YCSB_INSTANCES')
                  /\ NoDuplicates(YCSB_INSTANCES')]_vars

C4_Witness ==
    /\ last.op = "create_instances"
    /\ last.outcome = "ok"
    /\ last.group = "CLUSTER_INSTANCES"
    /\ last.num = 2
    /\ Len(CLUSTER_INSTANCES) = 3

\* C5: start_benchmark called before any prepare_benchmark is rejected with
\* the precondition error and dispatches no workload run; after a
\* prepare_benchmark(workload, name) call with a non-empty name that got past
\* the membership check, RUN_NAME is name and WORKLOAD is workload.
C5_StartNeedsPrepare ==
    /\ (last.op = "start_benchmark" /\ ~prepare_called)
          => /\ last.outcome = "precondition"
             /\ "ycsb run" \notin Range(Kinds(last.cmds))
    /\ (last.op = "prepare_benchmark" /\ last.name \notin {NoneStr, ""}
          /\ last.outcome # "precondition")
          => /\ RUN_NAME = last.name
             /\ WORKLOAD = last.workload

C5_Witness ==
    /\ last.op = "start_benchmark"
    /\ ~prepare_called
    /\ last.outcome = "precondition"
    /\ YCSB_INSTANCES # <<>>

\* C6: when the probe on the access point answers and the keyspace exists,
\* prepare_benchmark issues no schema creation and still enters the load step
\* on the first generator node, issuing the load when that node can be
\* connected to; this on every call.
C6_NoSchemaTwice ==
    [][(/\ last'.op = "prepare_benchmark"
        /\ last'.outcome # "precondition"
        /\ keyspace
        /\ ~(last'.outcome = "transport" /\ Len(last'.cmds) <= 2))
       => /\ "cqlsh create keyspace" \notin Range(Kinds(last'.cmds))
          /\ <<"connect", YCSB_INSTANCES[1]>> \in Range(last'.cmds)
          /\ \/ <<"ycsb load", YCSB_INSTANCES[1]>> \in Range(last'.cmds)
             \/ /\ last'.outcome = "transport"
                /\ last'.cmds[Len(last'.cmds)] = <<"connect", YCSB_INSTANCES[1]>>]_vars

C6_Witness ==
    /\ last.op = "prepare_benchmark"
    /\ last.outcome = "ok"
    /\ keyspace
    /\ "cqlsh create keyspace" \notin Range(Kinds(last.cmds))
    /\ "ycsb load" \in Range(Kinds(last.cmds))

\* C7: when gather_results gets to the cluster nodes, then whichever of them
\* fail at connecting or at fetching the log, it returns, every node that
\* does not fail has its cassandra_<i>.log, every node that fails has its
\* warning, and the state and settings snapshots are written.
C7_HarvestToleratesNodeFailure ==
    (last.op = "gather_results" /\ last.modes # <<>>)
       => /\ last.outcome = "ok"
          /\ \A k \in 1..Len(last.modes) :
                IF last.modes[k] = "ok"
                THEN <<last.name, "cassandra", k - 1>> \in results
                ELSE (k - 1) \in last.warned
          /\ Snapshot(last.name) \subseteq results

\* C8: a load_state that returns right after a load_state that returned, the
\* inventory being the same, changes neither list; and any load_state only
\* appends to the lists identifiers they did not hold.
C8_LoadStateIdempotent ==
    [][last'.op = "load_state"
       => /\ (loaded /\ last'.outcome = "ok")
                => /\ CLUSTER_INSTANCES' = CLUSTER_INSTANCES
                   /\ YCSB_INSTANCES' = YCSB_INSTANCES
          /\ IsPrefix(CLUSTER_INSTANCES, CLUSTER_INSTANCES')
          /\ IsPrefix(YCSB_INSTANCES, YCSB_INSTANCES')
          /\ NoDuplicates(CLUSTER_INSTANCES) => NoDuplicates(CLUSTER_INSTANCES')
          /\ NoDuplicates(YCSB_INSTANCES) => NoDuplicates(YCSB_INSTANCES')]_vars

C8_Witness ==
    /\ last.op = "load_state" /\ last.again
    /\ last.outcome = "ok"
    /\ Len(CLUSTER_INSTANCES) >= 2
    /\ YCSB_INSTANCES # <<>>

\* C9: SEED_IP is known whenever CLUSTER_INSTANCES is not empty.
C9_SeedKnownWhenClusterNotEmpty ==
    CLUSTER_INSTANCES # <<>> => SEED_IP # None

\* C10 as stated: whatever create_instances and load_state calls were made,
\* no identifier is in both CLUSTER_INSTANCES and YCSB_INSTANCES.
C10_RolesDisjoint ==
    Range(CLUSTER_INSTANCES) \cap Range(YCSB_INSTANCES) = {}

\* C10 amended: no identifier is in both lists as long as every
\* create_instances call that was passed state.CLUSTER_INSTANCES had the setup
\* "cassandra" and every call that was passed state.YCSB_INSTANCES had the
\* setup "ycsb".
C10_RolesDisjointWhenSetupMatches ==
    ~role_mismatch => Range(CLUSTER_INSTANCES) \cap Range(YCSB_INSTANCES) = {}

C10_Witness ==
    /\ ~role_mismatch
    /\ last.op = "load_state" /\ last.outcome = "ok"
    /\ Len(CLUSTER_INSTANCES) >= 2
    /\ YCSB_INSTANCES # <<>>
    /\ \E i \in Range(CLUSTER_INSTANCES) : \E j \in Range(YCSB_INSTANCES) : j < i

\* the commands with an effect outside the process
SideEffecting == {"create_instances", "create_cluster", "scale_cluster",
                  "remove_cassandra_instance", "start_benchmark",
                  "terminate_instance", "terminate_cluster", "terminate_all"}

\* C11: every invocation of a command with an effect outside the process
\* (create_instances, create_cluster, scale_cluster, remove_cassandra_instance,
\* start_benchmark, terminate_instance, terminate_cluster, terminate_all) has
\* appended a record to the action ledger by the time the caller sees its
\* result, whether it returned or raised; any record counts, also one written
\* under the name of a command it called.
C11_EveryInvocationRecorded ==
    last.op \in SideEffecting => last.ledger # <<>>

\* C12: in terminate_cluster and terminate_all a terminate call is attempted
\* for every instance of CLUSTER_INSTANCES (for terminate_all, of
\* YCSB_INSTANCES too), whichever of the other terminations fail.
C12_EveryTerminationAttempted ==
    /\ last.op = "terminate_cluster" => Range(CLUSTER_INSTANCES) \subseteq Range(last.hosts)
    /\ last.op = "terminate_all"
          => Range(CLUSTER_INSTANCES) \cup Range(YCSB_INSTANCES) \subseteq Range(last.hosts)

\* C13: a prepare_benchmark call made while CLUSTER_INSTANCES or YCSB_INSTANCES
\* is empty raises the precondition error, leaves RUN_NAME, RUN_DESCRIPTION and
\* WORKLOAD as they were and issues no remote command: no probe, no schema
\* creation, no load.
C13_PrepareRejectedWithoutEffect ==
    [][(/\ last'.op = "prepare_benchmark"
        /\ (CLUSTER_INSTANCES = <<>> \/ YCSB_INSTANCES = <<>>))
       => /\ last'.outcome = "precondition"
          /\ RUN_NAME' = RUN_NAME
          /\ RUN_DESCRIPTION' = RUN_DESCRIPTION
          /\ WORKLOAD' = WORKLOAD
          /\ last'.cmds = <<>>
          /\ keyspace' = keyspace]_vars

C13_Witness ==
    /\ last.op = "prepare_benchmark"
    /\ last.outcome = "precondition"
    /\ last.name = "run1"
    /\ CLUSTER_INSTANCES # <<>>
    /\ YCSB_INSTANCES = <<>>
    /\ RUN_NAME = NoneStr

\* C14: start_benchmark dispatches the workload run only if a
\* prepare_benchmark call ran to its end (schema step and load without error)
\* earlier; after a prepare_benchmark that failed in its schema step or its
\* load and no other, start_benchmark is rejected.
C14_StartNeedsCompletedPrepare ==
    (last.op = "start_benchmark" /\ "ycsb run" \in Range(Kinds(last.cmds)))
       => prepare_done

\* C15: a remove_cassandra_instance call whose instance_id is
\* CLUSTER_INSTANCES[0], the administrative access point, is rejected with an
\* error and issues no decommission command.
C15_AccessPointNotDecommissioned ==
    (/\ last.op = "remove_cassandra_instance"
     /\ CLUSTER_INSTANCES # <<>>
     /\ last.hosts = <<CLUSTER_INSTANCES[1]>>)
       => /\ last.outcome # "ok"
          /\ "decommission_cassandra" \notin Range(Kinds(last.cmds))

\* C16: under create_instances, create_cluster, scale_cluster and load_state,
\* in any order and with any arguments, SEED_IP never changes once it holds an
\* address.
C16_SeedNeverChanges ==
    [][SEED_IP # None => SEED_IP' = SEED_IP]_vars

\* C17: wait_for_finish returns only when its last probe reported the
\* workload process stopped, never while it reported it running; it sleeps
\* only after a probe that reported it running, and each sleep of 10 units is
\* followed by another probe; and if the workload process stops and stays
\* stopped, a call in its loop comes to its end, by returning unless a probe
\* raised.
C17_WaitReturnsOnceStopped ==
    /\ [](wait.pc = "returned" => wait.reported = "stopped")
    /\ [](wait.pc = "raised" => wait.reported = "error")
    /\ [](wait.pc = "sleep" => wait.reported = "running")
    /\ [][wait.pc = "sleep" /\ wait' # wait
            => /\ wait'.pc = "probe"
               /\ wait'.slept \in {wait.slept + Interval, Interval * MaxProbes}
               /\ wait'.probes = wait.probes]_vars
    /\ [][wait.pc = "probe" /\ wait' # wait
            => wait'.probes \in {wait.probes + 1, MaxProbes}]_vars
    /\ (<>[](~ycsb_running)) => (Waiting ~> wait.pc \in {"returned", "raised"})

C17_Witness ==
    /\ wait.pc = "returned"
    /\ wait.probes >= 3
    /\ wait.slept >= 2 * Interval
    /\ ~ycsb_running

\* the result directory of the run name dir exists
ResultDir(dir) == <<dir, "dir", 0>> \in results

\* C18: once gather_results has created the result directory of a run name,
\* a later gather_results for that run name, after another prepare_benchmark
\* with the same name or not, writes no file in it: it neither overwrites a
\* file nor adds one.
C18_ResultNeverMutated ==
    [][(last'.op = "gather_results" /\ ResultDir(RUN_NAME))
       => /\ last'.written = {}
          /\ results' = results]_vars

\* the commands that write neither membership list
LeavesMembership == {"create_cluster", "scale_cluster", "remove_cassandra_instance",
                     "terminate_instance", "terminate_cluster", "terminate_all"}

\* C19: the membership lists only grow, at their end, and only under
\* create_instances (the list passed as group) and load_state: create_cluster,
\* scale_cluster, remove_cassandra_instance, terminate_instance,
\* terminate_cluster and terminate_all leave both lists as they are, whether
\* they return or raise, so an identifier keeps its index after its
\* termination or decommission and CLUSTER_INSTANCES[0] never changes.
C19_MembershipOnlyGrows ==
    [][/\ IsPrefix(CLUSTER_INSTANCES, CLUSTER_INSTANCES')
       /\ IsPrefix(YCSB_INSTANCES, YCSB_INSTANCES')
       /\ last'.op \in LeavesMembership
             => /\ CLUSTER_INSTANCES' = CLUSTER_INSTANCES
                /\ YCSB_INSTANCES' = YCSB_INSTANCES
       /\ last'.op = "create_instances"
             => /\ last'.group # "CLUSTER_INSTANCES" => CLUSTER_INSTANCES' = CLUSTER_INSTANCES
                /\ last'.group # "YCSB_INSTANCES" => YCSB_INSTANCES' = YCSB_INSTANCES]_vars

C19_Witness ==
    /\ last.op = "terminate_cluster"
    /\ last.outcome = "ok"
    /\ Len(CLUSTER_INSTANCES) >= 2
    /\ \A i \in Range(CLUSTER_INSTANCES) : ec2[i].state = "terminated"
    /\ YCSB_INSTANCES # <<>>

\* C20: a create_instances call in which the creation of the k-th of num
\* instances fails raises and leaves the list passed as group exactly as it
\* was, while the k-1 instances created before exist in the EC2 inventory; the
\* list is extended only by a call in which all num creations returned.
C20_AllOrNothing ==
    [][last'.op = "create_instances"
       => /\ last'.outcome = "transport"
               => /\ CLUSTER_INSTANCES' = CLUSTER_INSTANCES
                  /\ YCSB_INSTANCES' = YCSB_INSTANCES
                  /\ Len(last'.created) < last'.num
                  /\ \A i \in Range(last'.created) : ~Exists(i) /\ Exists(i)'
          /\ (CLUSTER_INSTANCES' # CLUSTER_INSTANCES \/ YCSB_INSTANCES' # YCSB_INSTANCES)
               => /\ last'.outcome = "ok"
                  /\ Len(last'.created) = last'.num]_vars

C20_Witness ==
    /\ last.op = "create_instances"
    /\ last.outcome = "transport"
    /\ last.num = 2
    /\ Len(last.created) = 1
    /\ last.group = "CLUSTER_INSTANCES"
    /\ last.created[1] \notin Range(CLUSTER_INSTANCES)
    /\ Exists(last.created[1])

====
